---- MODULE Spec2Model ----
(***************************************************************************)
(* Thoughtflow note app (note-app-deployable.tsx): the note store, its     *)
(* persistence in localStorage, the tag suggester, the related-note finder *)
(* and the browse filter.                                                  *)
(*                                                                         *)
(* A JavaScript string is a sequence of one-character strings.  The JSON   *)
(* text held by localStorage is a sequence of lexical tokens.              *)
(***************************************************************************)
EXTENDS Integers, Sequences, FiniteSets, TLC

VARIABLES
    blob,          \* localStorage[STORAGE_KEY]: [present, toks]
    notes,         \* useState notes: the JS value [kind, items]
    currentNote,   \* useState currentNote (the textarea)
    searchQuery,   \* useState searchQuery
    selectedTags,  \* useState selectedTags (an array)
    clock,         \* the value Date.now() returns, in ms
    pc             \* "mounted" (first render done), "idle", "crashed"

vars == <<blob, notes, currentNote, searchQuery, selectedTags, clock, pc>>

----------------------------------------------------------------------------
(* Bounds of the model *)

\* Notes the store may hold in a session of Spec.
MaxNotes == 2
\* Notes an earlier session left in the blob (Spec).
MaxPrior == 1
\* Clock ticks in a run.
MaxTicks == 1
\* Length of the corpus in SpecRelated.
MaxCorpus == 5
\* Notes of the store in SpecFilter.
MaxShown == 2
\* Pieces a note's text is assembled from in SpecSuggest.
MaxPieces == 2

----------------------------------------------------------------------------
(* JavaScript strings *)

Min(a, b) == IF a < b THEN a ELSE b

SP == " "
NL == "\n"
TAB == "\t"

\* White space as String.prototype.trim and the regular expression \s see it
\* (restricted to the characters the model's texts use).
WhiteSpace == {SP, NL, TAB}

UpperToLower ==
    ("A" :> "a") @@ ("B" :> "b") @@ ("C" :> "c") @@ ("D" :> "d") @@ ("E" :> "e") @@
    ("F" :> "f") @@ ("G" :> "g") @@ ("H" :> "h") @@ ("I" :> "i") @@ ("J" :> "j") @@
    ("K" :> "k") @@ ("L" :> "l") @@ ("M" :> "m") @@ ("N" :> "n") @@ ("O" :> "o") @@
    ("P" :> "p") @@ ("Q" :> "q") @@ ("R" :> "r") @@ ("S" :> "s") @@ ("T" :> "t") @@
    ("U" :> "u") @@ ("V" :> "v") @@ ("W" :> "w") @@ ("X" :> "x") @@ ("Y" :> "y") @@
    ("Z" :> "z")

\* String.prototype.toLowerCase
toLowerCase(s) ==
    [i \in 1..Len(s) |-> IF s[i] \in DOMAIN UpperToLower THEN UpperToLower[s[i]] ELSE s[i]]

\* String.prototype.includes: sub occurs in s as a substring.
includes(s, sub) ==
    \E i \in 0..(Len(s) - Len(sub)) : SubSeq(s, i + 1, i + Len(sub)) = sub

\* Array.prototype.includes
arrayIncludes(arr, x) == \E i \in 1..Len(arr) : arr[i] = x

\* String.prototype.split with a one-character separator: "a  b" gives
\* ["a", "", "b"] and "" gives [""].
split(s, sep) ==
    LET RECURSIVE go(_, _, _)
        go(i, cur, acc) ==
            IF i > Len(s) THEN Append(acc, cur)
            ELSE IF s[i] = sep THEN go(i + 1, <<>>, Append(acc, cur))
            ELSE go(i + 1, Append(cur, s[i]), acc)
    IN go(1, <<>>, <<>>)

\* String.prototype.trim
trim(s) ==
    LET keep == {i \in 1..Len(s) : s[i] \notin WhiteSpace}
    IN IF keep = {} THEN <<>>
       ELSE SubSeq(s, CHOOSE i \in keep : \A j \in keep : i <= j,
                      CHOOSE i \in keep : \A j \in keep : j <= i)

\* String.prototype.slice(0, n)
slice(s, n) == SubSeq(s, 1, Min(n, Len(s)))

----------------------------------------------------------------------------
(* Date *)

Digit == <<"0", "1", "2", "3", "4", "5", "6", "7", "8", "9">>

\* new Date(ms).toISOString() for an instant in the first second of the epoch:
\* "1970-01-01T00:00:00.mmmZ".
toISOString(ms) ==
    <<"1", "9", "7", "0", "-", "0", "1", "-", "0", "1", "T",
      "0", "0", ":", "0", "0", ":", "0", "0", ".">>
    \o <<Digit[((ms \div 100) % 10) + 1], Digit[((ms \div 10) % 10) + 1], Digit[(ms % 10) + 1], "Z">>

----------------------------------------------------------------------------
(* JSON text: tokens, JSON.stringify and JSON.parse *)

Tok(t) == [t |-> t, s |-> <<>>, n |-> 0]
StrTok(s) == [t |-> "str", s |-> s, n |-> 0]
NumTok(n) == [t |-> "num", s |-> <<>>, n |-> n]

kId == <<"i", "d">>
kContent == <<"c", "o", "n", "t", "e", "n", "t">>
kTimestamp == <<"t", "i", "m", "e", "s", "t", "a", "m", "p">>
kTags == <<"t", "a", "g", "s">>
kRelated == <<"r", "e", "l", "a", "t", "e", "d">>
kPreview == <<"p", "r", "e", "v", "i", "e", "w">>

\* "[" e1 "," e2 ... "]" for the token sequences es[1], es[2], ...
JsonArray(es) ==
    LET RECURSIVE join(_)
        join(i) ==
            IF i > Len(es) THEN <<>>
            ELSE (IF i > 1 THEN <<Tok(",")>> ELSE <<>>) \o es[i] \o join(i + 1)
    IN <<Tok("[")>> \o join(1) \o <<Tok("]")>>

JsonMember(key, value) == <<StrTok(key), Tok(":")>> \o value

JsonRelated(r) ==
    <<Tok("{")>> \o JsonMember(kId, <<NumTok(r.id)>>) \o <<Tok(",")>>
    \o JsonMember(kPreview, <<StrTok(r.preview)>>) \o <<Tok("}")>>

JsonNote(note) ==
    <<Tok("{")>> \o JsonMember(kId, <<NumTok(note.id)>>) \o <<Tok(",")>>
    \o JsonMember(kContent, <<StrTok(note.content)>>) \o <<Tok(",")>>
    \o JsonMember(kTimestamp, <<StrTok(note.timestamp)>>) \o <<Tok(",")>>
    \o JsonMember(kTags, JsonArray([i \in 1..Len(note.tags) |-> <<StrTok(note.tags[i])>>]))
    \o <<Tok(",")>>
    \o JsonMember(kRelated, JsonArray([i \in 1..Len(note.related) |-> JsonRelated(note.related[i])]))
    \o <<Tok("}")>>

\* The JS values the notes state can hold: an array of notes, or what JSON.parse
\* makes of a text that is valid JSON and no array (null, {}).
JsArray(items) == [kind |-> "array", items |-> items]
JsNull == [kind |-> "null", items |-> <<>>]
JsObject == [kind |-> "object", items |-> <<>>]

\* JSON.stringify of a notes value.
JSONstringify(v) ==
    CASE v.kind = "array" -> JsonArray([i \in 1..Len(v.items) |-> JsonNote(v.items[i])])
      [] v.kind = "null" -> <<Tok("null")>>
      [] OTHER -> <<Tok("{"), Tok("}")>>

At(toks, i) == IF i \in 1..Len(toks) THEN toks[i] ELSE Tok("eof")

Fail == [ok |-> FALSE, val |-> <<>>, next |-> 0]

ParseString(toks, i) ==
    IF At(toks, i).t = "str" THEN [ok |-> TRUE, val |-> toks[i].s, next |-> i + 1] ELSE Fail

ParseNumber(toks, i) ==
    IF At(toks, i).t = "num" THEN [ok |-> TRUE, val |-> toks[i].n, next |-> i + 1] ELSE Fail

\* The members of a related entry and of a note, in the order JSON.stringify
\* writes them, with the type of each value.
RelatedFields == <<[key |-> kId, type |-> "number"], [key |-> kPreview, type |-> "string"]>>

NoteFields == <<
    [key |-> kId, type |-> "number"],
    [key |-> kContent, type |-> "string"],
    [key |-> kTimestamp, type |-> "string"],
    [key |-> kTags, type |-> "strings"],
    [key |-> kRelated, type |-> "relateds"] >>

RECURSIVE ParseValue(_, _, _)

\* Parse "[" elem ("," elem)* "]" or "[" "]" at position i, the elements being
\* values of type elem.
ParseArray(toks, i, elem) ==
    LET RECURSIVE more(_, _)
        RECURSIVE after(_, _)
        after(acc, r) == IF r.ok THEN more(r.next, Append(acc, r.val)) ELSE Fail
        more(j, acc) ==
            IF At(toks, j).t = "]" THEN [ok |-> TRUE, val |-> acc, next |-> j + 1]
            ELSE IF At(toks, j).t = "," THEN after(acc, ParseValue(toks, j + 1, elem))
            ELSE Fail
    IN IF At(toks, i).t # "[" THEN Fail
       ELSE IF At(toks, i + 1).t = "]" THEN [ok |-> TRUE, val |-> <<>>, next |-> i + 2]
       ELSE after(<<>>, ParseValue(toks, i + 1, elem))

\* Parse "{" "key" ":" value ("," "key" ":" value)* "}" at position i, the keys
\* being those of fields, in order; val is the tuple of the values.
ParseObject(toks, i, fields) ==
    LET RECURSIVE member(_, _, _)
        RECURSIVE after(_, _, _)
        after(k, acc, r) ==
            IF ~r.ok THEN Fail
            ELSE IF k = Len(fields)
            THEN IF At(toks, r.next).t = "}"
                 THEN [ok |-> TRUE, val |-> Append(acc, r.val), next |-> r.next + 1]
                 ELSE Fail
            ELSE IF At(toks, r.next).t = ","
            THEN member(r.next + 1, k + 1, Append(acc, r.val))
            ELSE Fail
        member(j, k, acc) ==
            IF At(toks, j) = StrTok(fields[k].key) /\ At(toks, j + 1).t = ":"
            THEN after(k, acc, ParseValue(toks, j + 2, fields[k].type))
            ELSE Fail
    IN IF At(toks, i).t = "{" THEN member(i + 1, 1, <<>>) ELSE Fail

AsRelated(r) ==
    IF r.ok
    THEN [ok |-> TRUE, val |-> [id |-> r.val[1], preview |-> r.val[2]], next |-> r.next]
    ELSE Fail

AsNote(r) ==
    IF r.ok
    THEN [ok |-> TRUE,
          val |-> [id |-> r.val[1], content |-> r.val[2], timestamp |-> r.val[3],
                   tags |-> r.val[4], related |-> r.val[5]],
          next |-> r.next]
    ELSE Fail

\* Parse at position i a value of the given type.
ParseValue(toks, i, type) ==
    CASE type = "number" -> ParseNumber(toks, i)
      [] type = "string" -> ParseString(toks, i)
      [] type = "strings" -> ParseArray(toks, i, "string")
      [] type = "related" -> AsRelated(ParseObject(toks, i, RelatedFields))
      [] type = "relateds" -> ParseArray(toks, i, "related")
      [] type = "note" -> AsNote(ParseObject(toks, i, NoteFields))
      [] OTHER -> ParseArray(toks, i, "note")

\* JSON.parse on the texts the blob can hold here: null, {}, an array of note
\* objects as JSON.stringify writes them; any other token sequence (a truncated
\* text, a stray bracket) is a SyntaxError, reported as ok = FALSE.
AsArray(toks, r) ==
    IF r.ok /\ r.next = Len(toks) + 1
    THEN [ok |-> TRUE, val |-> JsArray(r.val)]
    ELSE [ok |-> FALSE, val |-> JsArray(<<>>)]

JSONparse(toks) ==
    IF toks = <<Tok("null")>> THEN [ok |-> TRUE, val |-> JsNull]
    ELSE IF toks = <<Tok("{"), Tok("}")>> THEN [ok |-> TRUE, val |-> JsObject]
    ELSE AsArray(toks, ParseValue(toks, 1, "notes"))

----------------------------------------------------------------------------
(* Note store: localStorage *)

\* localStorage.getItem(STORAGE_KEY) of a key that is not set gives null.
NoBlob == [present |-> FALSE, toks |-> <<>>]

Blob(toks) == [present |-> TRUE, toks |-> toks]

\* loadNotes: the parsed value when the key is set to a non-empty text that
\* parses, [] when the key is missing, empty or JSON.parse throws.
parsedOrEmpty(parsed) == IF parsed.ok THEN parsed.val ELSE JsArray(<<>>)

loadNotes(b) ==
    IF b.present /\ b.toks # <<>> THEN parsedOrEmpty(JSONparse(b.toks)) ELSE JsArray(<<>>)

\* saveNotes: the blob after localStorage.setItem(STORAGE_KEY, JSON.stringify(notes)).
saveNotes(v) == Blob(JSONstringify(v))

----------------------------------------------------------------------------
(* Tag suggester *)

\* The keywords table of suggestTags, in Object.entries order.
keywords == <<
    [keyword |-> <<"m", "e", "e", "t", "i", "n", "g">>,
     tags |-> << <<"m", "e", "e", "t", "i", "n", "g", "s">>, <<"w", "o", "r", "k">> >>],
    [keyword |-> <<"t", "a", "s", "k">>,
     tags |-> << <<"t", "a", "s", "k", "s">>, <<"t", "o", "d", "o">> >>],
    [keyword |-> <<"i", "d", "e", "a">>,
     tags |-> << <<"i", "d", "e", "a", "s">>, <<"c", "r", "e", "a", "t", "i", "v", "i", "t", "y">> >>],
    [keyword |-> <<"r", "e", "s", "e", "a", "r", "c", "h">>,
     tags |-> << <<"r", "e", "s", "e", "a", "r", "c", "h">>, <<"l", "e", "a", "r", "n", "i", "n", "g">> >>],
    [keyword |-> <<"p", "r", "o", "j", "e", "c", "t">>,
     tags |-> << <<"p", "r", "o", "j", "e", "c", "t", "s">>, <<"w", "o", "r", "k">> >>] >>

\* Set.prototype.add on a Set kept in insertion order.
setAdd(set, x) == IF arrayIncludes(set, x) THEN set ELSE Append(set, x)

\* suggestTags without the toLowerCase call.
suggestTagsCaseSensitive(content) ==
    LET RECURSIVE addTags(_, _, _)
        addTags(set, tags, j) ==
            IF j > Len(tags) THEN set ELSE addTags(setAdd(set, tags[j]), tags, j + 1)
        RECURSIVE forEach(_, _)
        forEach(k, suggestedTags) ==
            IF k > Len(keywords) THEN suggestedTags
            ELSE forEach(k + 1,
                         IF includes(content, keywords[k].keyword)
                         THEN addTags(suggestedTags, keywords[k].tags, 1)
                         ELSE suggestedTags)
    IN forEach(1, <<>>)

\* suggestTags: the tags of every keyword the lower-cased content includes, in
\* table order, each tag once.
suggestTags(content) ==
    LET contentLower == toLowerCase(content)
        RECURSIVE addTags(_, _, _)
        addTags(set, tags, j) ==
            IF j > Len(tags) THEN set ELSE addTags(setAdd(set, tags[j]), tags, j + 1)
        RECURSIVE forEach(_, _)
        forEach(k, suggestedTags) ==
            IF k > Len(keywords) THEN suggestedTags
            ELSE forEach(k + 1,
                         IF includes(contentLower, keywords[k].keyword)
                         THEN addTags(suggestedTags, keywords[k].tags, 1)
                         ELSE suggestedTags)
    IN forEach(1, <<>>)

----------------------------------------------------------------------------
(* Related-note finder *)

\* The filter callback of findRelatedNotes.
hasCommonWords(content, note) ==
    LET contentWords == split(toLowerCase(content), SP)
        noteWords == split(toLowerCase(note.content), SP)
        longAndShared(word) == Len(word) > 4 /\ arrayIncludes(noteWords, word)
        commonWords == SelectSeq(contentWords, longAndShared)
    IN Len(commonWords) > 0

\* findRelatedNotes without the slice(0, 3) call.
findRelatedNotesUncapped(content, ns) ==
    LET matches(note) == hasCommonWords(content, note)
        top == SelectSeq(ns, matches)
    IN [i \in 1..Len(top) |->
           [id |-> top[i].id, preview |-> slice(top[i].content, 100) \o <<".", ".", ".">>]]

\* findRelatedNotes over the notes array ns the closure sees.
findRelatedNotes(content, ns) ==
    LET matches(note) == hasCommonWords(content, note)
        top == slice(SelectSeq(ns, matches), 3)
    IN [i \in 1..Len(top) |->
           [id |-> top[i].id, preview |-> slice(top[i].content, 100) \o <<".", ".", ".">>]]

----------------------------------------------------------------------------
(* Saving a note *)

\* The newNote object of handleNoteSave, Date.now() returning now.
newNote(content, now, ns) ==
    [id |-> now,
     content |-> content,
     timestamp |-> toISOString(now),
     tags |-> suggestTags(content),
     related |-> findRelatedNotes(content, ns)]

\* [newNote]: the previous notes lost.
prependReplacing(note, ns) == <<note>>

\* [...notes, newNote]: the new note last.
prependAtEnd(note, ns) == Append(ns, note)

\* [newNote, ...notes]
prepend(note, ns) == <<note>> \o ns

\* handleNoteSave when the save effect does not run after it.
handleNoteSaveUnsaved ==
    /\ pc = "idle"
    /\ IF trim(currentNote) # <<>>
       THEN /\ notes' = JsArray(prepend(newNote(currentNote, clock, notes.items), notes.items))
            /\ currentNote' = <<>>
            /\ blob' = blob
       ELSE UNCHANGED <<notes, currentNote, blob>>
    /\ UNCHANGED <<searchQuery, selectedTags, clock, pc>>

\* handleNoteSave, with the render it schedules and the save effect that render
\* runs: a text that is empty after trim changes nothing.  React renders between
\* two events, so the notes the handler's closure holds are the current ones.
\* Date.now() and new Date() read the clock in the same millisecond.
handleNoteSave ==
    /\ pc = "idle"
    /\ IF trim(currentNote) # <<>>
       THEN /\ notes' = JsArray(prepend(newNote(currentNote, clock, notes.items), notes.items))
            /\ currentNote' = <<>>
            /\ blob' = saveNotes(notes')
       ELSE UNCHANGED <<notes, currentNote, blob>>
    /\ UNCHANGED <<searchQuery, selectedTags, clock, pc>>

\* The store a session leaves after saving the texts cs[1], cs[2], ... one
\* millisecond apart, starting from an empty store at clock value 1.
BuildStore(cs) ==
    LET RECURSIVE go(_, _)
        go(i, ns) ==
            IF i > Len(cs) THEN ns ELSE go(i + 1, prepend(newNote(cs[i], i, ns), ns))
    IN go(1, <<>>)

----------------------------------------------------------------------------
(* Browse view: filter and tag choices *)

matchesSearch(note) ==
    LET terms == split(toLowerCase(searchQuery), SP)
    IN \A k \in 1..Len(terms) : includes(toLowerCase(note.content), terms[k])

matchesTags(note) ==
    \/ Len(selectedTags) = 0
    \/ \E k \in 1..Len(selectedTags) : arrayIncludes(note.tags, selectedTags[k])

keepNote(note) == matchesSearch(note) /\ matchesTags(note)

\* filteredNotes, as every render computes it from notes, searchQuery and selectedTags.
filteredNotes == SelectSeq(notes.items, keepNote)

\* The tags of all notes: what allTags holds, as a set (allTags sorts it for display).
allTags ==
    UNION {{n.tags[k] : k \in 1..Len(n.tags)} : n \in {notes.items[i] : i \in 1..Len(notes.items)}}

\* onChange of the search box.
setSearchQuery(q) ==
    /\ pc = "idle"
    /\ searchQuery' = q
    /\ UNCHANGED <<blob, notes, currentNote, selectedTags, clock, pc>>

\* onClick of a tag button.
toggleTag(tag) ==
    /\ pc = "idle"
    /\ tag \in allTags
    /\ selectedTags' =
           IF arrayIncludes(selectedTags, tag)
           THEN LET other(t) == t # tag IN SelectSeq(selectedTags, other)
           ELSE Append(selectedTags, tag)
    /\ UNCHANGED <<blob, notes, currentNote, searchQuery, clock, pc>>

\* onChange of the textarea.
setCurrentNote(text) ==
    /\ pc = "idle"
    /\ currentNote' = text
    /\ UNCHANGED <<blob, notes, searchQuery, selectedTags, clock, pc>>

----------------------------------------------------------------------------
(* Mounting *)

\* The two mount effects after the first render, and the render they cause:
\* the load effect reads the blob and sets notes, the save effect writes the
\* first render's notes, the second render's save effect writes the loaded ones.
mountEffects ==
    /\ pc = "mounted"
    /\ LET savedNotes == loadNotes(blob)
       IN /\ notes' = savedNotes
          /\ blob' = saveNotes(savedNotes)
          /\ pc' = IF savedNotes.kind = "array" THEN "idle" ELSE "crashed"
    /\ UNCHANGED <<currentNote, searchQuery, selectedTags, clock>>

\* A millisecond passes.
tick ==
    /\ pc = "idle"
    /\ clock < MaxPrior + 1 + MaxTicks
    /\ clock' = clock + 1
    /\ UNCHANGED <<blob, notes, currentNote, searchQuery, selectedTags, pc>>

----------------------------------------------------------------------------
(* Inputs *)

\* All sequences over S of length at most n.
SeqsUpTo(S, n) == UNION {[1..k -> S] : k \in 0..n}

\* Texts typed into the textarea in Spec: "big elephants", "elephants task",
\* and two texts that are empty after trim.
txtBigElephants == <<"b", "i", "g", " ", "e", "l", "e", "p", "h", "a", "n", "t", "s">>
txtElephantsTask == <<"e", "l", "e", "p", "h", "a", "n", "t", "s", " ", "t", "a", "s", "k">>
SessionTexts == {txtBigElephants, txtElephantsTask}
BlankTexts == {<<>>, <<SP, NL>>}

\* Search phrases typed in Spec: "", "task".
SessionQueries == {<<>>, <<"t", "a", "s", "k">>}

\* Blobs an earlier session wrote.
WrittenBlobs == {saveNotes(JsArray(BuildStore(cs))) : cs \in SeqsUpTo(SessionTexts, MaxPrior)}

\* Blobs cut short (the closing bracket lost): no JSON text.
TruncatedBlobs == {Blob(SubSeq(b.toks, 1, Len(b.toks) - 1)) : b \in WrittenBlobs}

\* What localStorage can hold under the key when the app starts: nothing, the
\* empty text, a text an earlier session wrote, such a text cut short, and the
\* JSON texts null and {}.
InitialBlobs ==
    {NoBlob, Blob(<<>>), Blob(<<Tok("null")>>), Blob(<<Tok("{"), Tok("}")>>)}
    \cup WrittenBlobs \cup TruncatedBlobs

----------------------------------------------------------------------------
(* A session of the app *)

\* After useState(() => loadNotes()) and the first render, which throws on
\* notes.filter when notes is no array.
Init ==
    /\ blob \in InitialBlobs
    /\ notes = loadNotes(blob)
    /\ currentNote = <<>>
    /\ searchQuery = <<>>
    /\ selectedTags = <<>>
    /\ clock = MaxPrior + 1
    /\ pc = IF notes.kind = "array" THEN "mounted" ELSE "crashed"

Next ==
    \/ mountEffects
    \/ \E text \in SessionTexts \cup BlankTexts : setCurrentNote(text)
    \/ (Len(notes.items) < MaxNotes /\ handleNoteSave)
    \/ \E q \in SessionQueries : setSearchQuery(q)
    \/ \E tag \in allTags : toggleTag(tag)
    \/ tick

Spec == Init /\ [][Next]_vars

----------------------------------------------------------------------------
(* The tag suggester on its own: one save of an assembled text *)

\* "Meeting ", "Task", "idea", "RESEARCH", "project", "res", "earch", "x "
Pieces == {
    <<"M", "e", "e", "t", "i", "n", "g", " ">>,
    <<"T", "a", "s", "k">>,
    <<"i", "d", "e", "a">>,
    <<"R", "E", "S", "E", "A", "R", "C", "H">>,
    <<"p", "r", "o", "j", "e", "c", "t">>,
    <<"r", "e", "s">>,
    <<"e", "a", "r", "c", "h">>,
    <<"x", " ">> }

Concat(ps) ==
    LET RECURSIVE cat(_)
        cat(i) == IF i > Len(ps) THEN <<>> ELSE ps[i] \o cat(i + 1)
    IN cat(1)

SuggestInputs == {Concat(ps) : ps \in SeqsUpTo(Pieces, MaxPieces) \ {<<>>}}

InitSuggest ==
    /\ notes = JsArray(<<>>)
    /\ blob = saveNotes(notes)
    /\ currentNote \in SuggestInputs
    /\ searchQuery = <<>>
    /\ selectedTags = <<>>
    /\ clock = 1
    /\ pc = "idle"

NextSuggest == handleNoteSave

SpecSuggest == InitSuggest /\ [][NextSuggest]_vars

----------------------------------------------------------------------------
(* The related-note finder on its own: one save over a stored corpus *)

\* "elephants are huge", "big tree", "Trees  huge"
RelContents == {
    <<"e", "l", "e", "p", "h", "a", "n", "t", "s", " ", "a", "r", "e", " ", "h", "u", "g", "e">>,
    <<"b", "i", "g", " ", "t", "r", "e", "e">>,
    <<"T", "r", "e", "e", "s", " ", " ", "h", "u", "g", "e">> }

\* "I love elephants", "huge tree", "love\nelephants", "TREES elephants"
RelInputs == {
    <<"I", " ", "l", "o", "v", "e", " ", "e", "l", "e", "p", "h", "a", "n", "t", "s">>,
    <<"h", "u", "g", "e", " ", "t", "r", "e", "e">>,
    <<"l", "o", "v", "e", "\n", "e", "l", "e", "p", "h", "a", "n", "t", "s">>,
    <<"T", "R", "E", "E", "S", " ", "e", "l", "e", "p", "h", "a", "n", "t", "s">> }

InitRelated ==
    /\ \E cs \in SeqsUpTo(RelContents, MaxCorpus) : notes = JsArray(BuildStore(cs))
    /\ blob = saveNotes(notes)
    /\ currentNote \in RelInputs
    /\ searchQuery = <<>>
    /\ selectedTags = <<>>
    /\ clock = MaxCorpus + 1
    /\ pc = "idle"

NextRelated == handleNoteSave

SpecRelated == InitRelated /\ [][NextRelated]_vars

----------------------------------------------------------------------------
(* The browse filter on its own: searches and tag choices over a stored corpus *)

\* "Task apples", "idea apples pears", "pears"
FilterContents == {
    <<"T", "a", "s", "k", " ", "a", "p", "p", "l", "e", "s">>,
    <<"i", "d", "e", "a", " ", "a", "p", "p", "l", "e", "s", " ", "p", "e", "a", "r", "s">>,
    <<"p", "e", "a", "r", "s">> }

\* "", "apple", "APPLES pears", "pears\tapples", "pears  idea"
Queries == {
    <<>>,
    <<"a", "p", "p", "l", "e">>,
    <<"A", "P", "P", "L", "E", "S", " ", "p", "e", "a", "r", "s">>,
    <<"p", "e", "a", "r", "s", "\t", "a", "p", "p", "l", "e", "s">>,
    <<"p", "e", "a", "r", "s", " ", " ", "i", "d", "e", "a">> }

InitFilter ==
    /\ \E cs \in SeqsUpTo(FilterContents, MaxShown) : notes = JsArray(BuildStore(cs))
    /\ blob = saveNotes(notes)
    /\ currentNote = <<>>
    /\ searchQuery = <<>>
    /\ selectedTags = <<>>
    /\ clock = MaxShown + 1
    /\ pc = "idle"

NextFilter ==
    \/ \E q \in Queries : setSearchQuery(q)
    \/ \E tag \in allTags : toggleTag(tag)

SpecFilter == InitFilter /\ [][NextFilter]_vars

----------------------------------------------------------------------------
(* Properties *)

Range(seq) == {seq[i] : i \in 1..Len(seq)}

\* The notes that were in the store when items[i] was added: those after it.
StoreBefore(items, i) == SubSeq(items, i + 1, Len(items))

IsSuffix(old, new) ==
    /\ Len(new) >= Len(old)
    /\ SubSeq(new, Len(new) - Len(old) + 1, Len(new)) = old

\* The k-th smallest element of a set of numbers.
Nth(S, k) == CHOOSE j \in S : Cardinality({x \in S : x <= j}) = k

\* A related list holds the ids of the first min(3, m) notes of corpus whose
\* positions are in R, in corpus order.
IsFirstThreeOf(related, corpus, R) ==
    /\ Len(related) = Min(3, Cardinality(R))
    /\ \A k \in 1..Len(related) : related[k].id = corpus[Nth(R, k)].id

\* Split on every white-space character.
splitOnWhiteSpace(s) ==
    LET RECURSIVE go(_, _, _)
        go(i, cur, acc) ==
            IF i > Len(s) THEN Append(acc, cur)
            ELSE IF s[i] \in WhiteSpace THEN go(i + 1, <<>>, Append(acc, cur))
            ELSE go(i + 1, Append(cur, s[i]), acc)
    IN go(1, <<>>, <<>>)

\* C1: no two notes in the store have the same id.
C1_IdsUnique ==
    \A i, j \in 1..Len(notes.items) : i # j => notes.items[i].id # notes.items[j].id

\* C2: a note in the store stays in it, with the same id, content, timestamp,
\* tags and related, in every later state: each step keeps the store's notes, in
\* order, as the tail of the next store.
C2_NotesKept ==
    [][notes.kind = "array" =>
           notes'.kind = "array" /\ IsSuffix(notes.items, notes'.items)]_vars

C2_Witness ==
    /\ Len(notes.items) = 2
    /\ searchQuery # <<>>
    /\ selectedTags # <<>>
    /\ currentNote = <<>>

\* C3: a save of a text that is non-empty after trim puts the new note first,
\* followed by the previous store in its previous order, and nothing else ever
\* changes the store.
C3_PrependOnly ==
    [][/\ (handleNoteSave /\ trim(currentNote) # <<>>) => notes' # notes
       /\ notes' # notes =>
              /\ trim(currentNote) # <<>>
              /\ Len(notes'.items) = Len(notes.items) + 1
              /\ Head(notes'.items).content = currentNote
              /\ Tail(notes'.items) = notes.items]_vars

C3_Witness ==
    /\ Len(notes.items) = 2
    /\ notes.items[1].content = txtElephantsTask
    /\ notes.items[2].content = txtBigElephants
    /\ notes.items[1].id > notes.items[2].id
    /\ currentNote = <<>>

\* C4: once the app is mounted and after every save, the blob is set and holds
\* the serialization of the notes in memory, and loading it gives those notes.
C4_BlobFollowsStore ==
    pc = "idle" =>
        /\ blob = Blob(JSONstringify(notes))
        /\ loadNotes(blob) = notes

C4_Witness ==
    /\ pc = "idle"
    /\ Len(notes.items) = 2
    /\ notes.items[1].related # <<>>
    /\ notes.items[1].tags # <<>>

\* C5: loadNotes returns a sequence of notes whatever the blob holds, and the
\* empty sequence when the key is missing or its text is no JSON text.
C5_LoadFailsSoft ==
    /\ loadNotes(blob).kind = "array"
    /\ (~blob.present \/ blob.toks = <<>> \/ ~JSONparse(blob.toks).ok)
           => loadNotes(blob) = JsArray(<<>>)

\* C6: the related list of a note holds the first min(3, m) of the m related
\* notes of the store it was saved into, in the store's order, none skipped; so
\* it never has more than 3 entries.
C6_FirstThreeRelated ==
    \A i \in 1..Len(notes.items) :
        LET corpus == StoreBefore(notes.items, i)
            R == {j \in 1..Len(corpus) : hasCommonWords(notes.items[i].content, corpus[j])}
        IN /\ IsFirstThreeOf(notes.items[i].related, corpus, R)
           /\ Len(notes.items[i].related) <= 3

C6_Witness ==
    /\ currentNote = <<>>
    /\ Len(notes.items) = MaxCorpus + 1
    /\ LET corpus == StoreBefore(notes.items, 1)
           R == {j \in 1..Len(corpus) : hasCommonWords(notes.items[1].content, corpus[j])}
       IN /\ Cardinality(R) >= 4
          /\ \E j \in 1..Len(corpus) : j \notin R /\ j < Nth(R, 3)
          /\ Len(notes.items[1].related) = 3

\* C7: the filtered notes are exactly the notes, in store order, of which the
\* lower-cased content includes every term of the lower-cased search phrase split
\* on white space, and which have a selected tag when any tag is selected.
C7_FilterByTermsAndTags ==
    LET terms == splitOnWhiteSpace(toLowerCase(searchQuery))
        keeps(note) ==
            /\ \A term \in Range(terms) : includes(toLowerCase(note.content), term)
            /\ (selectedTags = <<>> \/ Range(note.tags) \cap Range(selectedTags) # {})
    IN filteredNotes = SelectSeq(notes.items, keeps)

\* C8: the tags of a note are the tags of the keywords its lower-cased content
\* includes, each once, in the order of the first keyword that brings them, and
\* there are none iff the content includes no keyword.
C8_TagsOfIncludedKeywords ==
    \A i \in 1..Len(notes.items) :
        LET tags == notes.items[i].tags
            lower == toLowerCase(notes.items[i].content)
            hits == {k \in 1..Len(keywords) : includes(lower, keywords[k].keyword)}
            first(tag) == CHOOSE k \in hits :
                              /\ tag \in Range(keywords[k].tags)
                              /\ \A j \in hits : tag \in Range(keywords[j].tags) => k <= j
        IN /\ Range(tags) = UNION {Range(keywords[k].tags) : k \in hits}
           /\ \A a, b \in 1..Len(tags) : a < b => tags[a] # tags[b] /\ first(tags[a]) <= first(tags[b])
           /\ (tags = <<>>) <=> (hits = {})

C8_Witness ==
    /\ currentNote = <<>>
    /\ Len(notes.items) = 1
    /\ notes.items[1].content # toLowerCase(notes.items[1].content)
    /\ Len(notes.items[1].tags) = 3
    /\ notes.items[1].tags[2] = <<"w", "o", "r", "k">>

\* C9: a stored note is related to a new text iff some word of the text longer
\* than 4 characters is a word of the note, both lower-cased and split on white
\* space of any kind: the related list holds the first 3 such notes.
C9_RelatedBySharedLongWord ==
    \A i \in 1..Len(notes.items) :
        LET corpus == StoreBefore(notes.items, i)
            words == Range(splitOnWhiteSpace(toLowerCase(notes.items[i].content)))
            R == {j \in 1..Len(corpus) :
                     \E w \in words :
                         /\ Len(w) > 4
                         /\ w \in Range(splitOnWhiteSpace(toLowerCase(corpus[j].content)))}
        IN IsFirstThreeOf(notes.items[i].related, corpus, R)

\* C10: every id in a note's related list is the id of a note that was in the
\* store before the note was added, and is not the note's own id.
C10_RelatedPointsBack ==
    \A i \in 1..Len(notes.items) :
        \A k \in 1..Len(notes.items[i].related) :
            /\ \E j \in (i + 1)..Len(notes.items) :
                   notes.items[j].id = notes.items[i].related[k].id
            /\ notes.items[i].related[k].id # notes.items[i].id

====
